---- MODULE Spec2Model ----
(***************************************************************************)
(* A model of lib/token_handler.js (class EasyNoPassword): the constructor, *)
(* createToken, isValid and the asynchronous steps behind them (_encrypt,   *)
(* _decrypt, _createKey), with several calls in flight on one instance.     *)
(*                                                                          *)
(* Representation.                                                          *)
(*  - A JavaScript value is a record [type, val]; a string is the sequence  *)
(*    of its code points, a Buffer the sequence of its bytes.               *)
(*  - A JavaScript number that holds a time is a Num: four 16-bit limbs,     *)
(*    most significant first (TLC's integers are 32 bits wide, the          *)
(*    program's timestamps are not).  Arithmetic on Nums is exact; the      *)
(*    program's is IEEE double, which is exact below 2^53, and every clock  *)
(*    value and every sum the window check accepts lies below 2^53.         *)
(*  - lib/base62.js is not among the sources; Base62Encode / Base62Decode   *)
(*    follow section 4.1 of the specification.                              *)
(*  - crypto.pbkdf2 and the "bf" cipher are Node primitives.  They are       *)
(*    modelled by what the program relies on: a deterministic function of   *)
(*    (password, salt, iterations, length), and a keyed bijection of 8-byte *)
(*    blocks chained in CBC mode, whose final() throws on a partial block.  *)
(*    pbkdf2 reporting an error to its callback (resource exhaustion) is    *)
(*    not modelled.                                                         *)
(*  - async.waterfall runs a task's successor inside the task's callback,   *)
(*    so everything from pbkdf2's callback to next(...) is one step; an     *)
(*    exception thrown in a task is caught by nobody.                       *)
(***************************************************************************)
EXTENDS Integers, Sequences, FiniteSets, TLC

VARIABLES
    this,       \* the instance: secret, maxTokenAge, iterations, iv
    ctor,       \* "none" | "ok" | "threw": the outcome of new EasyNoPassword
    ctorArgs,   \* the arguments the constructor was called with
    clock,      \* what new Date().getTime() returns now
    ticks,      \* how often the clock has advanced
    process,    \* "running" | "exited"
    calls       \* the calls made on the instance, by slot

vars == <<this, ctor, ctorArgs, clock, ticks, process, calls>>

MaxCalls == 2
MaxTicks == 2

Calls == 1..MaxCalls

----------------------------------------------------------------------------
(* JavaScript values *)

Undefined == [type |-> "undefined", val |-> <<>>]
Str(s) == [type |-> "string", val |-> s]
Number(n) == [type |-> "number", val |-> n]
Buf(b) == [type |-> "buffer", val |-> b]

\* typeof v === "string"
IsString(v) == v.type = "string"

----------------------------------------------------------------------------
(* Numbers: Num == four limbs of 16 bits, most significant first *)

LimbBase == 256 * 256

Zero == <<0, 0, 0, 0>>

\* !v : undefined, the empty string and the number 0 are falsy; a Buffer is
\* an object and so truthy whatever it holds.
Falsy(v) ==
    \/ v.type = "undefined"
    \/ v.type = "string" /\ v.val = <<>>
    \/ v.type = "number" /\ v.val = Zero

RECURSIVE AddLimbs(_, _, _, _)
AddLimbs(a, b, i, carry) ==
    IF i = 0 THEN <<>>
    ELSE LET s == a[i] + b[i] + carry
         IN  AddLimbs(a, b, i - 1, s \div LimbBase) \o <<s % LimbBase>>

\* a + b
NumAdd(a, b) == AddLimbs(a, b, 4, 0)

\* a < b
NumLess(a, b) ==
    \E i \in 1..4 : a[i] < b[i] /\ \A j \in 1..(i - 1) : a[j] = b[j]

RECURSIVE SubLimbs(_, _, _, _)
SubLimbs(a, b, i, borrow) ==
    IF i = 0 THEN <<>>
    ELSE LET d == a[i] - b[i] - borrow
         IN  IF d < 0
             THEN SubLimbs(a, b, i - 1, 1) \o <<d + LimbBase>>
             ELSE SubLimbs(a, b, i - 1, 0) \o <<d>>

\* a - b, a signed number: [neg, mag]
NumMinus(a, b) ==
    IF NumLess(a, b)
    THEN [neg |-> TRUE, mag |-> SubLimbs(b, a, 4, 0)]
    ELSE [neg |-> FALSE, mag |-> SubLimbs(a, b, 4, 0)]

\* x < m and x > 0, for a signed x and a Num m
SignedLess(x, m) == x.neg \/ NumLess(x.mag, m)
SignedPositive(x) == ~x.neg /\ x.mag # Zero

\* UINT32_CAPACITY = 0xffffffff + 1 = 2^32 is the Num <<0, 1, 0, 0>>.
\* floor(n / UINT32_CAPACITY) and n % UINT32_CAPACITY: a 32-bit word is two
\* limbs.  writeUInt32BE truncates the quotient's fraction.
DivCapacity(n) == <<n[1], n[2]>>
ModCapacity(n) == <<n[3], n[4]>>

\* hi * UINT32_CAPACITY + lo
TimesCapacityPlus(hi, lo) == NumAdd(<<hi[1], hi[2], 0, 0>>, <<0, 0, lo[1], lo[2]>>)

----------------------------------------------------------------------------
(* Buffers *)

Zeros(n) == [i \in 1..n |-> 0]

\* buffer.writeUInt32BE(word, offset): four bytes, most significant first
WriteUInt32BE(buffer, word, offset) ==
    [i \in 1..Len(buffer) |->
        IF i = offset + 1 THEN word[1] \div 256
        ELSE IF i = offset + 2 THEN word[1] % 256
        ELSE IF i = offset + 3 THEN word[2] \div 256
        ELSE IF i = offset + 4 THEN word[2] % 256
        ELSE buffer[i]]

\* buffer.readUInt32BE(offset) throws a RangeError when the four bytes are not there
ReadUInt32BEThrows(buffer, offset) == offset + 4 > Len(buffer)

ReadUInt32BE(buffer, offset) ==
    << buffer[offset + 1] * 256 + buffer[offset + 2],
       buffer[offset + 3] * 256 + buffer[offset + 4] >>

\* new Buffer.from(v): the UTF-8 bytes of a string (code points below 128
\* are one byte each), a copy of a Buffer
BufferFrom(v) == v.val

----------------------------------------------------------------------------
(* Base62Codec (specification, section 4.1): the byte sequence is a         *)
(* big-endian unsigned integer; encode divides it by 62 repeatedly and      *)
(* emits the digits 0-9A-Za-z, least significant first, then reverses;      *)
(* decode rejects any other character and is the exact inverse for 8-byte   *)
(* sequences.  Policy for leading zero bytes: encode emits the integer's    *)
(* digits (at least one), decode pads the integer's bytes on the left to 8. *)

\* the value of a character as a base-62 digit, -1 when it is none
Base62Digit(ch) ==
    IF ch \in 48..57 THEN ch - 48
    ELSE IF ch \in 65..90 THEN ch - 55
    ELSE IF ch \in 97..122 THEN ch - 61
    ELSE -1

Base62Char(d) ==
    IF d < 10 THEN 48 + d
    ELSE IF d < 36 THEN 55 + d
    ELSE 61 + d

\* long division of a big-endian byte sequence by m: <<quotient, remainder>>
RECURSIVE DivBytes(_, _, _)
DivBytes(bytes, m, rem) ==
    IF bytes = <<>> THEN << <<>>, rem >>
    ELSE LET cur  == rem * 256 + Head(bytes)
             rest == DivBytes(Tail(bytes), m, cur % m)
         IN  << <<cur \div m>> \o rest[1], rest[2] >>

IsZeroBytes(bytes) == \A i \in DOMAIN bytes : bytes[i] = 0

\* the base-62 digits of the integer, most significant first
RECURSIVE Base62Digits(_)
Base62Digits(bytes) ==
    IF IsZeroBytes(bytes) THEN <<>>
    ELSE LET qr == DivBytes(bytes, 62, 0)
         IN  Base62Digits(qr[1]) \o <<qr[2]>>

Base62Encode(bytes) ==
    LET ds == Base62Digits(bytes)
    IN  IF ds = <<>> THEN <<Base62Char(0)>>
        ELSE [i \in 1..Len(ds) |-> Base62Char(ds[i])]

\* bytes * m + carry, on a big-endian byte sequence with no leading zero
RECURSIVE MulAddBytes(_, _, _)
MulAddBytes(bytes, m, carry) ==
    IF bytes = <<>> THEN (IF carry = 0 THEN <<>> ELSE <<carry>>)
    ELSE LET n == Len(bytes)
             v == bytes[n] * m + carry
         IN  MulAddBytes(SubSeq(bytes, 1, n - 1), m, v \div 256) \o <<v % 256>>

RECURSIVE Base62Value(_, _)
Base62Value(str, acc) ==
    IF str = <<>> THEN acc
    ELSE Base62Value(Tail(str), MulAddBytes(acc, 62, Base62Digit(Head(str))))

\* decode throws (FormatError) on a character outside the alphabet
Base62DecodeThrows(str) == \E i \in DOMAIN str : Base62Digit(str[i]) < 0

Base62Decode(str) ==
    LET v == Base62Value(str, <<>>)
    IN  IF Len(v) < 8 THEN Zeros(8 - Len(v)) \o v ELSE v

----------------------------------------------------------------------------
(* crypto.pbkdf2(password, salt, iterations, keylen, "sha512"): a            *)
(* deterministic function of its four inputs that yields keylen bytes.      *)

RECURSIVE WeightedSum(_, _)
WeightedSum(bytes, w) ==
    IF bytes = <<>> THEN 0
    ELSE (w * Head(bytes) + WeightedSum(Tail(bytes), w + 2)) % 256

Pbkdf2(password, salt, iterations, keylen) ==
    [i \in 1..keylen |->
        (WeightedSum(password, i) + WeightedSum(salt, 2 * i + 1) + iterations + 7 * i) % 256]

----------------------------------------------------------------------------
(* crypto.createCipheriv("bf", key, iv) / createDecipheriv, padding off:    *)
(* a keyed bijection of 8-byte blocks in CBC mode.                          *)

BlockSize == 8

RECURSIVE XorBits(_, _, _)
XorBits(a, b, n) ==
    IF n = 0 THEN 0
    ELSE ((a + b) % 2) + 2 * XorBits(a \div 2, b \div 2, n - 1)

XorBlock(x, y) == [i \in 1..BlockSize |-> XorBits(x[i], y[i], 8)]

\* the block function and its inverse under a 16-byte key
BfEncryptBlock(key, block) ==
    [i \in 1..BlockSize |-> (block[(i % BlockSize) + 1] + key[i] + key[i + BlockSize]) % 256]

BfDecryptBlock(key, block) ==
    [j \in 1..BlockSize |->
        LET i == ((j + BlockSize - 2) % BlockSize) + 1
        IN  (block[i] + 512 - key[i] - key[i + BlockSize]) % 256]

\* cipher.update(data): the complete blocks of data, CBC-chained from iv
RECURSIVE CipherUpdate(_, _, _)
CipherUpdate(key, prev, data) ==
    IF Len(data) < BlockSize THEN <<>>
    ELSE LET c == BfEncryptBlock(key, XorBlock(SubSeq(data, 1, BlockSize), prev))
         IN  c \o CipherUpdate(key, c, SubSeq(data, BlockSize + 1, Len(data)))

RECURSIVE DecipherUpdate(_, _, _)
DecipherUpdate(key, prev, data) ==
    IF Len(data) < BlockSize THEN <<>>
    ELSE LET c == SubSeq(data, 1, BlockSize)
         IN  XorBlock(BfDecryptBlock(key, c), prev)
                 \o DecipherUpdate(key, c, SubSeq(data, BlockSize + 1, Len(data)))

\* final() with padding off throws when the data left over is a partial block
FinalThrows(data) == Len(data) % BlockSize # 0

----------------------------------------------------------------------------
(* The constructor *)

\* 900000: 15 minutes in milliseconds, 13 * 65536 + 48032
DefaultMaxTokenAge == <<0, 0, 13, 48032>>

Iterations == 1000
KeyLength == 16

NoInstance == [secret |-> <<>>, maxTokenAge |-> Zero, iterations |-> 0, iv |-> <<>>]

\* (variant: only an absent maxTokenAge takes the default, as ?? would)
MaxTokenAgeOrDefaultNullish(maxTokenAge) ==
    IF maxTokenAge.type = "undefined" THEN DefaultMaxTokenAge ELSE maxTokenAge.val

\* maxTokenAge || 900000
MaxTokenAgeOrDefault(maxTokenAge) ==
    IF Falsy(maxTokenAge) THEN DefaultMaxTokenAge ELSE maxTokenAge.val

\* if (!secret) throw new Error("You must provide a secret!")
ConstructorThrows(secret) == Falsy(secret)

NewInstance(secret, maxTokenAge) ==
    [ secret      |-> BufferFrom(secret),
      maxTokenAge |-> MaxTokenAgeOrDefault(maxTokenAge),
      iterations  |-> Iterations,
      iv          |-> Zeros(BlockSize) ]

----------------------------------------------------------------------------
(* The pipeline behind createToken and isValid *)

\* _createKey: pbkdf2 with the username as password and the secret as salt
CreateKey(self, username) ==
    Pbkdf2(BufferFrom(Str(username)), self.secret, self.iterations, KeyLength)

\* (variant: the two words written in the opposite order)
TimestampToBufferSwapped(timestamp) ==
    WriteUInt32BE(WriteUInt32BE(Zeros(8), DivCapacity(timestamp), 4),
                  ModCapacity(timestamp), 0)

\* timestamp -> buffer
TimestampToBuffer(timestamp) ==
    WriteUInt32BE(WriteUInt32BE(Zeros(8), DivCapacity(timestamp), 0),
                  ModCapacity(timestamp), 4)

\* buffer -> timestamp
BufferToTimestamp(buffer) ==
    TimesCapacityPlus(ReadUInt32BE(buffer, 0), ReadUInt32BE(buffer, 4))

\* _encrypt, once the key is there: timestamp -> buffer -> encrypted -> token
EncryptWithKey(self, key, timestamp) ==
    Base62Encode(CipherUpdate(key, self.iv, TimestampToBuffer(timestamp)))

\* _decrypt, once the key is there.  A token base62 rejects gives
\* timestamp zero; a payload the decipher or the reads reject throws.
DecryptWithKey(self, key, token) ==
    IF Base62DecodeThrows(token)
    THEN [threw |-> FALSE, timestamp |-> Zero]
    ELSE LET encrypted == Base62Decode(token)
             buffer    == DecipherUpdate(key, self.iv, encrypted)
         IN  IF FinalThrows(encrypted) \/ ReadUInt32BEThrows(buffer, 0)
                                      \/ ReadUInt32BEThrows(buffer, 4)
             THEN [threw |-> TRUE, timestamp |-> Zero]
             ELSE [threw |-> FALSE, timestamp |-> BufferToTimestamp(buffer)]

\* (variant: a token exactly maxTokenAge old still passes)
WindowCheckInclusive(currentTimestamp, timestamp, maxTokenAge) ==
    /\ \/ SignedLess(NumMinus(currentTimestamp, timestamp), maxTokenAge)
       \/ NumMinus(currentTimestamp, timestamp) = [neg |-> FALSE, mag |-> maxTokenAge]
    /\ SignedPositive(NumMinus(currentTimestamp, timestamp))

\* (variant: a token of age zero passes)
WindowCheckNonNegative(currentTimestamp, timestamp, maxTokenAge) ==
    /\ SignedLess(NumMinus(currentTimestamp, timestamp), maxTokenAge)
    /\ ~NumMinus(currentTimestamp, timestamp).neg

\* currentTimestamp - timestamp < this.maxTokenAge && currentTimestamp - timestamp > 0
WindowCheck(currentTimestamp, timestamp, maxTokenAge) ==
    /\ SignedLess(NumMinus(currentTimestamp, timestamp), maxTokenAge)
    /\ SignedPositive(NumMinus(currentTimestamp, timestamp))

\* (variant: createToken without its first check)
CreateTokenThrowsTypeOnly(username) ==
    IF ~IsString(username) THEN "The first argument must be a username string."
    ELSE ""

\* the argument checks of createToken and of isValid: the message thrown, "" for none
CreateTokenThrows(username) ==
    IF Falsy(username) THEN "An identifier for the user is required."
    ELSE IF ~IsString(username) THEN "The first argument must be a username string."
    ELSE ""

IsValidThrows(token, username) ==
    IF Falsy(username) THEN "An identifier for the user is required."
    ELSE IF ~IsString(token) THEN "The first argument must be a token string."
    ELSE IF ~IsString(username) THEN "The first argument must be a username string."
    ELSE ""

\* (variant: the clock read when isValid is called)
IsValidClockReadAtCall(c) == calls[c].calledAt

\* the clock reading isValid's second task takes: new Date().getTime() then
IsValidClockRead(c) == clock

----------------------------------------------------------------------------
(* State *)

NoCall ==
    [ op         |-> "none",     \* "createToken" | "isValid"
      pc         |-> "idle",     \* "threw" | "deriving" | "done" | "crashed"
      token      |-> Undefined,  \* isValid's token argument
      username   |-> Undefined,
      thrown     |-> "",         \* the message of the error thrown at the caller
      timestamp  |-> Zero,       \* createToken: the time read; isValid: the time decrypted
      currentTimestamp |-> Zero, \* isValid: the time read for the window check
      calledAt   |-> Zero,       \* the clock when the call was made
      finishedAt |-> Zero,       \* the clock when the callback was invoked
      cbCalled   |-> FALSE,      \* next(err, value) was invoked
      cbErr      |-> "",         \* err, "" for null
      cbToken    |-> <<>>,       \* createToken's value
      cbValid    |-> FALSE ]     \* isValid's value

\* a realistic clock, two milliseconds below a multiple of 2^32
ClockStart == <<0, 395, 65535, 65534>>

\* the clock advances by a millisecond, or by one millisecond less than the
\* default window
TickSteps == { <<0, 0, 0, 1>>, <<0, 0, 13, 48031>> }

StringA == <<97>>
StringB == <<98>>

Secret1 == Str(<<115, 49>>)

\* 2, and 2^45 (a window that is longer than the clock's reading)
Age2 == Number(<<0, 0, 0, 2>>)
AgeHuge == Number(<<0, 8192, 0, 0>>)

\* "!!", "zzzzzzzzzzz" (62^11 - 1, above 2^64), ""
TokenBang == Str(<<33, 33>>)
TokenZs == Str([i \in 1..11 |-> 122])
TokenEmpty == Str(<<>>)

\* Inputs of Spec: the pipeline, on arguments that pass the checks
ConstructorArgs ==
    { <<Undefined, Undefined>>, <<Secret1, Undefined>>, <<Secret1, Age2>>, <<Secret1, AgeHuge>> }
UsernameArgs == { Str(StringA), Str(StringB) }
TokenArgs == { TokenEmpty, TokenBang, TokenZs }

\* Inputs of SpecArgs: the constructor and the argument checks, on every
\* kind of value
AnySecretArgs == { Undefined, Str(<<>>), Secret1, Buf(<<>>) }
AnyMaxTokenAgeArgs == { Undefined, Number(Zero), Age2, Number(DefaultMaxTokenAge), AgeHuge }
AnyUsernameArgs ==
    { Undefined, Str(<<>>), Number(Zero), Number(<<0, 0, 0, 5>>), Str(StringA), Str(StringB) }
AnyTokenArgs == { Undefined, Number(<<0, 0, 0, 5>>), TokenBang }

\* the tokens createToken has delivered so far
DeliveredTokens ==
    { Str(calls[k].cbToken) : k \in { j \in Calls : calls[j].op = "createToken" /\ calls[j].pc = "done" } }

TypeOK ==
    /\ ctor \in {"none", "ok", "threw"}
    /\ process \in {"running", "exited"}
    /\ ticks \in 0..MaxTicks
    /\ \A c \in Calls : calls[c].pc \in {"idle", "threw", "deriving", "done", "crashed"}

Init ==
    /\ this = NoInstance
    /\ ctor = "none"
    /\ ctorArgs = <<Undefined, Undefined>>
    /\ clock = ClockStart
    /\ ticks = 0
    /\ process = "running"
    /\ calls = [c \in Calls |-> NoCall]

----------------------------------------------------------------------------
(* Actions *)

\* new EasyNoPassword(secret, maxTokenAge)
Construct(secret, maxTokenAge) ==
    /\ ctor = "none"
    /\ ctorArgs' = <<secret, maxTokenAge>>
    /\ IF ConstructorThrows(secret)
       THEN ctor' = "threw" /\ this' = this
       ELSE ctor' = "ok" /\ this' = NewInstance(secret, maxTokenAge)
    /\ UNCHANGED <<clock, ticks, process, calls>>

\* time passes (the clock's reading before the first call is ClockStart)
Tick(d) ==
    /\ ctor = "ok"
    /\ process = "running"
    /\ calls[1].op # "none"
    /\ ticks < MaxTicks
    /\ clock' = NumAdd(clock, d)
    /\ ticks' = ticks + 1
    /\ UNCHANGED <<this, ctor, ctorArgs, process, calls>>

\* slot c is the next free one
Free(c) ==
    /\ ctor = "ok"
    /\ process = "running"
    /\ calls[c].op = "none"
    /\ \A b \in Calls : b < c => calls[b].op # "none"

\* createToken(username, next), up to the point where pbkdf2 is pending
CreateToken(c, username) ==
    /\ Free(c)
    /\ LET err == CreateTokenThrows(username)
           call == [NoCall EXCEPT !.op = "createToken", !.username = username,
                                  !.calledAt = clock]
       IN  calls' = [calls EXCEPT ![c] =
              IF err # ""
              THEN [call EXCEPT !.pc = "threw", !.thrown = err]
              ELSE [call EXCEPT !.pc = "deriving", !.timestamp = clock]]
    /\ UNCHANGED <<this, ctor, ctorArgs, clock, ticks, process>>

\* isValid(token, username, next), up to the point where pbkdf2 is pending
IsValid(c, token, username) ==
    /\ Free(c)
    /\ LET err == IsValidThrows(token, username)
           call == [NoCall EXCEPT !.op = "isValid", !.token = token,
                                  !.username = username, !.calledAt = clock]
       IN  calls' = [calls EXCEPT ![c] =
              IF err # ""
              THEN [call EXCEPT !.pc = "threw", !.thrown = err]
              ELSE [call EXCEPT !.pc = "deriving"]]
    /\ UNCHANGED <<this, ctor, ctorArgs, clock, ticks, process>>

\* pbkdf2 calls back for a createToken: the second task of _encrypt runs and
\* hands the token to next
EncryptStep(c) ==
    /\ process = "running"
    /\ calls[c].op = "createToken"
    /\ calls[c].pc = "deriving"
    /\ LET key == CreateKey(this, calls[c].username.val)
       IN  calls' = [calls EXCEPT ![c] =
              [@ EXCEPT !.pc = "done", !.cbCalled = TRUE, !.finishedAt = clock,
                        !.cbToken = EncryptWithKey(this, key, calls[c].timestamp)]]
    /\ UNCHANGED <<this, ctor, ctorArgs, clock, ticks, process>>

\* pbkdf2 calls back for an isValid: the second task of _decrypt runs, then
\* the second task of isValid, which hands the verdict to next.  An
\* exception thrown in the task is uncaught: the process exits, and no
\* callback is invoked any more.
DecryptStep(c) ==
    /\ process = "running"
    /\ calls[c].op = "isValid"
    /\ calls[c].pc = "deriving"
    /\ LET key == CreateKey(this, calls[c].username.val)
           dec == DecryptWithKey(this, key, calls[c].token.val)
           now == IsValidClockRead(c)
       IN  IF dec.threw
           THEN /\ calls' = [calls EXCEPT ![c] = [@ EXCEPT !.pc = "crashed"]]
                /\ process' = "exited"
           ELSE /\ calls' = [calls EXCEPT ![c] =
                      [@ EXCEPT !.pc = "done", !.cbCalled = TRUE, !.finishedAt = clock,
                                !.timestamp = dec.timestamp, !.currentTimestamp = now,
                                !.cbValid = WindowCheck(now, dec.timestamp, this.maxTokenAge)]]
                /\ process' = process
    /\ UNCHANGED <<this, ctor, ctorArgs, clock, ticks>>

Next ==
    \/ \E args \in ConstructorArgs : Construct(args[1], args[2])
    \/ \E d \in TickSteps : Tick(d)
    \/ \E c \in Calls, username \in UsernameArgs : CreateToken(c, username)
    \/ \E c \in Calls, username \in UsernameArgs, token \in TokenArgs \cup DeliveredTokens : IsValid(c, token, username)
    \/ \E c \in Calls : EncryptStep(c)
    \/ \E c \in Calls : DecryptStep(c)

Spec == Init /\ [][Next]_vars

NextArgs ==
    \/ \E secret \in AnySecretArgs, maxTokenAge \in AnyMaxTokenAgeArgs : Construct(secret, maxTokenAge)
    \/ \E c \in Calls, username \in AnyUsernameArgs : CreateToken(c, username)
    \/ \E c \in Calls, username \in AnyUsernameArgs, token \in AnyTokenArgs \cup DeliveredTokens : IsValid(c, token, username)
    \/ \E c \in Calls : EncryptStep(c)
    \/ \E c \in Calls : DecryptStep(c)

SpecArgs == Init /\ [][NextArgs]_vars

\* Inputs of SpecWindow: tokens that createToken delivered, checked under
\* the user they were made for and under another one
WindowConstructorArgs == { <<Secret1, Undefined>>, <<Secret1, Age2>> }

NextWindow ==
    \/ \E args \in WindowConstructorArgs : Construct(args[1], args[2])
    \/ \E d \in TickSteps : Tick(d)
    \/ \E c \in Calls, username \in UsernameArgs : CreateToken(c, username)
    \/ \E c \in Calls, username \in UsernameArgs, token \in DeliveredTokens : IsValid(c, token, username)
    \/ \E c \in Calls : EncryptStep(c)
    \/ \E c \in Calls : DecryptStep(c)

SpecWindow == Init /\ [][NextWindow]_vars

----------------------------------------------------------------------------
(* Vocabulary of the properties *)

Done(c, op) == calls[c].op = op /\ calls[c].pc = "done"

IsNonEmptyString(v) == v.type = "string" /\ v.val # <<>>

\* isValid call v has finished on the token createToken call k delivered,
\* under the username it was made for
TokenOf(v, k) ==
    /\ Done(v, "isValid")
    /\ Done(k, "createToken")
    /\ calls[v].token = Str(calls[k].cbToken)
    /\ calls[v].username = calls[k].username

\* 0 < now - t  and  now - t < age, stated without subtraction
Past(t, now) == NumLess(t, now)
Younger(t, now, age) == NumLess(now, NumAdd(t, age))

\* isValid call v handed `valid` to its callback, with no error
Delivered(v, valid) ==
    calls[v].cbCalled /\ calls[v].cbErr = "" /\ calls[v].cbValid = valid

----------------------------------------------------------------------------
(* Properties *)

\* C1 (round trip): a token createToken delivered for a username at time t
\* is judged valid by isValid under the same username and secret whenever
\* the window check runs at a time now with 0 < now - t < maxTokenAge.
RoundTrip ==
    \A v \in Calls, k \in Calls :
        ( /\ TokenOf(v, k)
          /\ Past(calls[k].calledAt, calls[v].finishedAt)
          /\ Younger(calls[k].calledAt, calls[v].finishedAt, this.maxTokenAge) )
        => Delivered(v, TRUE)

\* a token was accepted after the clock had moved on, across a 2^32 boundary
RoundTripWitness ==
    \E v \in Calls, k \in Calls :
        /\ TokenOf(v, k)
        /\ Past(calls[k].calledAt, calls[v].finishedAt)
        /\ DivCapacity(calls[k].calledAt) # DivCapacity(calls[v].finishedAt)
        /\ Delivered(v, TRUE)

\* C2 (expiry): a token created at time t is judged invalid under the same
\* username and secret whenever now - t >= maxTokenAge, the boundary
\* now - t = maxTokenAge included.
Expiry ==
    \A v \in Calls, k \in Calls :
        ( /\ TokenOf(v, k)
          /\ ~Younger(calls[k].calledAt, calls[v].finishedAt, this.maxTokenAge) )
        => Delivered(v, FALSE)

\* a token exactly maxTokenAge old was rejected
ExpiryWitness ==
    \E v \in Calls, k \in Calls :
        /\ TokenOf(v, k)
        /\ calls[v].finishedAt = NumAdd(calls[k].calledAt, this.maxTokenAge)
        /\ Delivered(v, FALSE)

\* C3 (future-token rejection): isValid answers false for every token whose
\* embedded timestamp equals or exceeds the verification time, a token
\* verified in the millisecond of its creation included.
FutureTokenRejected ==
    /\ \A v \in Calls :
          (Done(v, "isValid") /\ ~NumLess(calls[v].timestamp, calls[v].finishedAt))
          => Delivered(v, FALSE)
    /\ \A v \in Calls, k \in Calls :
          (TokenOf(v, k) /\ calls[k].calledAt = calls[v].finishedAt)
          => Delivered(v, FALSE)

\* a token was verified in the millisecond of its creation, and rejected
FutureTokenWitness ==
    \E v \in Calls, k \in Calls :
        /\ TokenOf(v, k)
        /\ calls[k].calledAt = calls[v].finishedAt
        /\ calls[v].timestamp = calls[v].currentTimestamp
        /\ Delivered(v, FALSE)

\* C10 (clock sampling): the timestamp createToken embeds is the clock at the
\* call, whenever the derivation finishes; isValid reads the clock when its
\* derivation and decryption have finished, so its verdict on a token is
\* the window check at that time, and a token younger than maxTokenAge when
\* isValid is called is judged invalid once its age has reached maxTokenAge
\* by then.
ClockSampling ==
    /\ \A c \in Calls :
          (calls[c].op = "createToken" /\ calls[c].pc \in {"deriving", "done"})
          => calls[c].timestamp = calls[c].calledAt
    /\ \A v \in Calls :
          Done(v, "isValid") => calls[v].currentTimestamp = calls[v].finishedAt
    /\ \A v \in Calls, k \in Calls :
          TokenOf(v, k)
          => /\ calls[v].timestamp = calls[k].calledAt
             /\ calls[v].cbValid =
                  ( /\ Past(calls[k].calledAt, calls[v].finishedAt)
                    /\ Younger(calls[k].calledAt, calls[v].finishedAt, this.maxTokenAge) )

\* a token made by a createToken whose derivation finished after the clock
\* had moved on was young enough when isValid was called, too old when the
\* derivation finished, and rejected
ClockSamplingWitness ==
    \E v \in Calls, k \in Calls :
        /\ TokenOf(v, k)
        /\ calls[k].finishedAt # calls[k].calledAt
        /\ Younger(calls[k].calledAt, calls[v].calledAt, this.maxTokenAge)
        /\ ~Younger(calls[k].calledAt, calls[v].finishedAt, this.maxTokenAge)
        /\ Delivered(v, FALSE)

\* C6 (createToken's argument check): an empty or non-string username makes
\* createToken throw before any work is done: no key derivation is
\* pending or finished, no timestamp is read, no token exists and the
\* callback is not invoked; a non-empty string username never makes it throw.
CreateTokenRejects ==
    \A c \in Calls :
        calls[c].op = "createToken" =>
            IF IsNonEmptyString(calls[c].username)
            THEN calls[c].pc \in {"deriving", "done"} /\ calls[c].thrown = ""
            ELSE /\ calls[c].pc = "threw"
                 /\ calls[c].thrown # ""
                 /\ ~calls[c].cbCalled
                 /\ calls[c].cbToken = <<>>
                 /\ calls[c].timestamp = Zero

\* createToken threw on the empty string, and on a number, and delivered a
\* token for a name
CreateTokenRejectsWitness ==
    /\ \E c \in Calls : /\ calls[c].op = "createToken"
                        /\ calls[c].username \in {Str(<<>>), Number(<<0, 0, 0, 5>>)}
                        /\ calls[c].pc = "threw"
    /\ \E c \in Calls : Done(c, "createToken") /\ calls[c].cbCalled

\* the window construction leaves behind for the arguments given, as C8 is
\* amended and as it was claimed
ExpectedMaxTokenAge(maxTokenAge) ==
    IF maxTokenAge.type = "undefined" \/ maxTokenAge.val = Zero
    THEN DefaultMaxTokenAge ELSE maxTokenAge.val

ClaimedMaxTokenAge(maxTokenAge) ==
    IF maxTokenAge.type = "undefined" THEN DefaultMaxTokenAge ELSE maxTokenAge.val

\* a token base62 rejects decrypts to timestamp zero, so isValid's verdict
\* on it shows the window in use: true exactly when the clock is below it
VerdictsShowWindow(age) ==
    \A v \in Calls :
        (Done(v, "isValid") /\ Base62DecodeThrows(calls[v].token.val))
        => calls[v].cbValid = NumLess(calls[v].finishedAt, age)

MalformedTokenIsInvalid ==
    \A v \in Calls :
        ( /\ calls[v].op = "isValid"
          /\ calls[v].pc \in {"done", "crashed"}
          /\ Base62DecodeThrows(calls[v].token.val) )
        => calls[v].pc = "done" /\ Delivered(v, FALSE)

\* C5 as claimed (isValid is total): for a string token and a non-empty
\* string username isValid never throws, at the caller or in its tasks, and
\* its callback gets a boolean; it throws at the caller only for other
\* arguments.
IsValidTotal ==
    \A v \in Calls :
        calls[v].op = "isValid" =>
            IF IsString(calls[v].token) /\ IsNonEmptyString(calls[v].username)
            THEN /\ calls[v].pc \in {"deriving", "done"}
                 /\ calls[v].pc = "done" => (calls[v].cbCalled /\ calls[v].cbErr = "")
            ELSE calls[v].pc = "threw"

\* what a call would hand to its callback had it run alone with the clock
\* readings it took, on the instance as constructed
AloneInstance == NewInstance(ctorArgs[1], ctorArgs[2])

AloneDecrypt(c) ==
    DecryptWithKey(AloneInstance, CreateKey(AloneInstance, calls[c].username.val),
                   calls[c].token.val)

AloneDelivers(c) ==
    calls[c].op = "createToken" \/ ~AloneDecrypt(c).threw

AloneResultIs(c) ==
    IF calls[c].op = "createToken"
    THEN calls[c].cbToken =
            EncryptWithKey(AloneInstance, CreateKey(AloneInstance, calls[c].username.val),
                           calls[c].calledAt)
    ELSE calls[c].cbValid =
            WindowCheck(calls[c].finishedAt, AloneDecrypt(c).timestamp,
                        AloneInstance.maxTokenAge)

\* C9 as claimed (concurrent calls are independent): no call changes the
\* instance, and whatever the interleaving each call's callback receives
\* what it would receive had the call run alone with the same clock
\* readings: the callback of a call that alone would get a result is not
\* left uninvoked for good, and the result it gets is that one.
ConcurrentCallsIndependent ==
    /\ ctor = "ok" => this = AloneInstance
    /\ \A c \in Calls :
          /\ calls[c].pc = "done" => (calls[c].cbCalled /\ AloneResultIs(c))
          /\ (calls[c].pc = "deriving" /\ process = "exited") => ~AloneDelivers(c)

====
